---- MODULE Spec2Model ----
(***************************************************************************)
(* Model of the SQL workbench component SqlQueryInterface                  *)
(* (src/src/components/sql-query-interface.tsx, the revision that carries  *)
(* the progress bar, lines 625-1426).                                      *)
(*                                                                         *)
(* Representation.  A JavaScript string is a sequence of one-character     *)
(* strings, so that trim, split, join, toUpperCase and comparison are      *)
(* computed character by character.  A JavaScript value is a record        *)
(* tagged by its typeof: Num(n), Str(s), JNull, Undef, Arr(<<..>>),        *)
(* Obj(f).  Tab ids are TLA+ strings ("1", or the decimal digits of        *)
(* Date.now()), the empty id is "".  Array indices are 0-based in the      *)
(* program and 1-based in sequences: a[i] is written a[i + 1].             *)
(***************************************************************************)
EXTENDS Integers, Sequences, FiniteSets, TLC

\* ------------------------------------------------------------------ bounds
MaxTabs == 3      \* addTab is not offered beyond this many tabs
MaxTime == 1      \* readings of the clock: 0..MaxTime
MaxRuns == 2      \* executions started in one behaviour
MaxEvents == 4    \* user events (clicks, keystrokes) in one behaviour
MaxColumns == 2   \* elements of the first row of an enumerated response body
MaxRows == 2      \* rows after the first of an enumerated response body
MaxSortRows == 3  \* rows of a result handed to the sort engine
MaxSorts == 3     \* sort clicks on one result
MaxTextLen == 3   \* characters of a text in the editor

\* ------------------------------------------------------- program constants
ProgressSpan == 20      \* Math.random() * 20
ProgressCap == 98       \* Math.min(prev + increment, 98)
ProgressDone == 100     \* setProgress(100)
DefaultWidth == 150     \* columns.map(() => 150)
Epoch == 1700000000  \* the reading of Date.now() at clock 0

\* ------------------------------------------------------- JavaScript values
JNull == [t |-> "null"]
Undef == [t |-> "undefined"]
Num(n) == [t |-> "number", v |-> n]
Str(s) == [t |-> "string", v |-> s]
Arr(a) == [t |-> "array", v |-> a]
Obj(f) == [t |-> "object", f |-> f]

IsArray(x) == x.t = "array"

\* `"k" in x` for an object x
HasField(x, k) == x.t = "object" /\ k \in DOMAIN x.f

\* x.k : property read; throws on null and undefined (reported by CanRead)
CanRead(x) == x.t \notin {"null", "undefined"}
Field(x, k) == IF HasField(x, k) THEN x.f[k] ELSE Undef

\* truthiness, as used by `column.name && ...` and `if (allQueries)`
Truthy(x) ==
  CASE x.t = "null" -> FALSE
    [] x.t = "undefined" -> FALSE
    [] x.t = "number" -> x.v # 0
    [] x.t = "string" -> x.v # <<>>
    [] OTHER -> TRUE

\* ------------------------------------------------------------------ strings
Whitespace == {" ", "\n", "\t"}

\* a comparison with "" that forgets to trim
TrimNothing(s) == s

RECURSIVE TrimStart(_)
TrimStart(s) ==
  IF s = <<>> THEN <<>>
  ELSE IF Head(s) \in Whitespace THEN TrimStart(Tail(s)) ELSE s

RECURSIVE TrimEnd(_)
TrimEnd(s) ==
  IF s = <<>> THEN <<>>
  ELSE IF s[Len(s)] \in Whitespace THEN TrimEnd(SubSeq(s, 1, Len(s) - 1)) ELSE s

\* String.prototype.trim
Trim(s) == TrimEnd(TrimStart(s))

\* String.prototype.split(sep) for a one-character separator
RECURSIVE SplitAcc(_, _, _)
SplitAcc(s, sep, cur) ==
  IF s = <<>> THEN <<cur>>
  ELSE IF Head(s) = sep THEN <<cur>> \o SplitAcc(Tail(s), sep, <<>>)
  ELSE SplitAcc(Tail(s), sep, Append(cur, Head(s)))

Split(s, sep) == SplitAcc(s, sep, <<>>)

\* Array.prototype.join(sep)
RECURSIVE Join(_, _)
Join(parts, sep) ==
  IF parts = <<>> THEN <<>>
  ELSE IF Len(parts) = 1 THEN parts[1]
  ELSE parts[1] \o sep \o Join(Tail(parts), sep)

\* String.prototype.substring(start, end)
Substring(s, start, end) == SubSeq(s, start + 1, end)

Lower == <<"a", "b", "c", "d", "e", "f", "g", "h", "i", "j", "k", "l", "m",
           "n", "o", "p", "q", "r", "s", "t", "u", "v", "w", "x", "y", "z">>
Upper == <<"A", "B", "C", "D", "E", "F", "G", "H", "I", "J", "K", "L", "M",
           "N", "O", "P", "Q", "R", "S", "T", "U", "V", "W", "X", "Y", "Z">>

UpperChar(c) ==
  IF \E i \in 1..26 : Lower[i] = c
  THEN Upper[CHOOSE i \in 1..26 : Lower[i] = c]
  ELSE c

\* String.prototype.toUpperCase
ToUpperCase(s) == [i \in 1..Len(s) |-> UpperChar(s[i])]

\* ------------------------------------------------------------- ColumnType
UNKNOWN == <<"U", "N", "K", "N", "O", "W", "N">>
NUMBER == <<"N", "U", "M", "B", "E", "R">>
INT == <<"I", "N", "T">>
ColumnType_STRING == <<"S", "T", "R", "I", "N", "G">>
ColumnType_BOOLEAN == <<"B", "O", "O", "L", "E", "A", "N">>
CONTAINER == <<"C", "O", "N", "T", "A", "I", "N", "E", "R">>
METADATA == <<"M", "E", "T", "A", "D", "A", "T", "A">>
RUN_CMD == <<"R", "U", "N", "_", "C", "M", "D">>
START == <<"S", "T", "A", "R", "T">>
STOP == <<"S", "T", "O", "P">>
PAUSE == <<"P", "A", "U", "S", "E">>
UNPAUSE == <<"U", "N", "P", "A", "U", "S", "E">>
REMOVE == <<"R", "E", "M", "O", "V", "E">>
RESTART == <<"R", "E", "S", "T", "A", "R", "T">>
KILL == <<"K", "I", "L", "L">>
COUNT == <<"C", "O", "U", "N", "T">>
SUM == <<"S", "U", "M">>
LENGTH == <<"L", "E", "N", "G", "T", "H">>

ColumnType == {NUMBER, INT, ColumnType_STRING, ColumnType_BOOLEAN, CONTAINER, METADATA, RUN_CMD,
               UNKNOWN, START, STOP, PAUSE, UNPAUSE, REMOVE, RESTART, KILL,
               COUNT, SUM, LENGTH}

\* -------------------------------------------------- response normalization
\* data[0]: undefined when the array is empty
First(data) == IF Len(data.v) > 0 THEN data.v[1] ELSE Undef

\* the structural check of runQuery: true when it throws
InvalidFormat(data) ==
  \/ ~IsArray(data)
  \/ Len(data.v) = 0
  \/ ~IsArray(First(data))

\* first branch: a single-element first row holding the empty string
IsSentinel(firstRow) ==
  /\ IsArray(firstRow)
  /\ Len(firstRow.v) = 1
  /\ firstRow.v[1] = Str(<<>>)

\* second branch: only element 0 of the first row is inspected
IsTypedHeader(firstRow) ==
  /\ IsArray(firstRow)
  /\ Len(firstRow.v) > 0
  /\ firstRow.v[1].t \in {"object", "array"}
  /\ HasField(firstRow.v[1], "type")
  /\ HasField(firstRow.v[1], "name")

\* col.name and (col.type as string).toUpperCase() evaluate without a
\* TypeError: col is not null/undefined and col.type is a string
TypedColumnOk(col) == CanRead(col) /\ Field(col, "type").t = "string"

\* a mapping that replaces a type outside the enumeration by UNKNOWN
TypedColumnCoerces(col) ==
  [name |-> Field(col, "name"),
   type |-> IF ToUpperCase(Field(col, "type").v) \in ColumnType
            THEN ToUpperCase(Field(col, "type").v) ELSE UNKNOWN]

TypedColumn(col) ==
  [name |-> Field(col, "name"), type |-> ToUpperCase(Field(col, "type").v)]

\* a mapping that types every plain column as a string column
PlainColumnString(colName) == [name |-> colName, type |-> ColumnType_STRING]

PlainColumn(colName) == [name |-> colName, type |-> UNKNOWN]

SentinelColumns == <<[name |-> Str(<<>>), type |-> UNKNOWN]>>

\* the tail of an array: data.slice(1)
Slice1(a) == SubSeq(a, 2, Len(a))

\* true when the try block throws for the decoded payload: the explicit
\* throw of the structural check, or a TypeError raised while mapping
NormalizeThrows(data) ==
  \/ InvalidFormat(data)
  \/ LET firstRow == First(data)
     IN  /\ ~IsSentinel(firstRow)
         /\ IF IsTypedHeader(firstRow)
            THEN \E i \in 1..Len(firstRow.v) : ~TypedColumnOk(firstRow.v[i])
            ELSE ~IsArray(firstRow)

\* updatedQueryResult, for a payload on which the try block does not throw
Normalize(data) ==
  LET firstRow == First(data)
      isErrorResponse == IsSentinel(firstRow)
      columns ==
        IF IsSentinel(firstRow) THEN SentinelColumns
        ELSE IF IsTypedHeader(firstRow)
             THEN [i \in 1..Len(firstRow.v) |-> TypedColumn(firstRow.v[i])]
             ELSE [i \in 1..Len(firstRow.v) |-> PlainColumn(firstRow.v[i])]
  IN  IF isErrorResponse /\ Len(data.v) >= 2
      THEN [columns |-> columns, rows |-> <<data.v[2]>>]
      ELSE [columns |-> columns, rows |-> Slice1(data.v)]

FailureMessage ==
  <<"F", "a", "i", "l", "e", "d", " ", "t", "o", " ", "e", "x", "e", "c",
    "u", "t", "e", " ", "q", "u", "e", "r", "y", ".", " ", "P", "l", "e",
    "a", "s", "e", " ", "t", "r", "y", " ", "a", "g", "a", "i", "n", ".">>

\* the error column named "Error"
ErrorResultNamed ==
  [columns |-> <<[name |-> Str(<<"E", "r", "r", "o", "r">>), type |-> UNKNOWN]>>,
   rows |-> <<Arr(<<Str(FailureMessage)>>)>>]

\* errorResult of the catch block
ErrorResult ==
  [columns |-> <<[name |-> Str(<<>>), type |-> UNKNOWN]>>,
   rows |-> <<Arr(<<Str(FailureMessage)>>)>>]

\* ------------------------------------------------------------------ sorting
Digit == <<"0", "1", "2", "3", "4", "5", "6", "7", "8", "9">>

RECURSIVE NatString(_)
NatString(n) ==
  IF n < 10 THEN <<Digit[n + 1]>>
  ELSE NatString(n \div 10) \o <<Digit[(n % 10) + 1]>>

RECURSIVE JsString(_)
\* String(x)
JsString(x) ==
  CASE x.t = "number" -> IF x.v < 0 THEN <<"-">> \o NatString(-x.v)
                         ELSE NatString(x.v)
    [] x.t = "string" -> x.v
    [] x.t = "null" -> <<"n", "u", "l", "l">>
    [] x.t = "undefined" -> <<"u", "n", "d", "e", "f", "i", "n", "e", "d">>
    [] x.t = "array" ->
         Join([i \in 1..Len(x.v) |->
                 IF x.v[i].t \in {"null", "undefined"} THEN <<>>
                 ELSE JsString(x.v[i])], <<",">>)
    [] OTHER -> <<"[", "o", "b", "j", "e", "c", "t", " ", "O", "b", "j", "e",
                  "c", "t", "]">>

\* primary collation order of the characters the model uses
Collation ==
  <<"\t", "\n", " ", "_", "-", ",", ";", ":", ".", "[", "]">> \o Digit \o Lower

RECURSIVE IndexOf(_, _)
\* the position of each of the first n characters of seq
IndexOf(seq, n) ==
  IF n = 1 THEN seq[1] :> 1 ELSE IndexOf(seq, n - 1) @@ (seq[n] :> n)

CollationIndex == IndexOf(Collation, Len(Collation))
UpperIndex == IndexOf(Upper, Len(Upper))

LowerChar(c) ==
  IF c \in DOMAIN UpperIndex THEN Lower[UpperIndex[c]] ELSE c

PrimaryKey(c) ==
  LET l == LowerChar(c)
  IN  IF l \in DOMAIN CollationIndex THEN CollationIndex[l] ELSE 0

\* lower case sorts before upper case when the letters are otherwise equal
CaseKey(c) == IF c \in DOMAIN UpperIndex THEN 1 ELSE 0

RECURSIVE CompareKeys(_, _)
CompareKeys(ka, kb) ==
  IF ka = <<>> /\ kb = <<>> THEN 0
  ELSE IF ka = <<>> THEN -1
  ELSE IF kb = <<>> THEN 1
  ELSE IF Head(ka) < Head(kb) THEN -1
  ELSE IF Head(ka) > Head(kb) THEN 1
  ELSE CompareKeys(Tail(ka), Tail(kb))

\* a.localeCompare(b)
LocaleCompare(a, b) ==
  LET primary == CompareKeys([i \in 1..Len(a) |-> PrimaryKey(a[i])],
                             [i \in 1..Len(b) |-> PrimaryKey(b[i])])
  IN  IF primary # 0 THEN primary
      ELSE CompareKeys([i \in 1..Len(a) |-> CaseKey(a[i])],
                       [i \in 1..Len(b) |-> CaseKey(b[i])])

\* row[columnIndex] for a row that is not null or undefined
Cell(row, columnIndex) ==
  CASE row.t = "array" ->
         IF columnIndex + 1 \in 1..Len(row.v) THEN row.v[columnIndex + 1]
         ELSE Undef
    [] row.t = "string" ->
         IF columnIndex + 1 \in 1..Len(row.v) THEN Str(<<row.v[columnIndex + 1]>>)
         ELSE Undef
    [] OTHER -> Undef

\* a comparator that compares the string representations of all cells
ComparatorByString(a, b, columnIndex, direction) ==
  LET aVal == Cell(a, columnIndex)
      bVal == Cell(b, columnIndex)
  IN  IF direction = "asc"
      THEN LocaleCompare(JsString(aVal), JsString(bVal))
      ELSE LocaleCompare(JsString(bVal), JsString(aVal))

\* the comparator handed to Array.prototype.sort
Comparator(a, b, columnIndex, direction) ==
  LET aVal == Cell(a, columnIndex)
      bVal == Cell(b, columnIndex)
  IN  IF aVal.t = "number" /\ bVal.t = "number"
      THEN IF direction = "asc" THEN aVal.v - bVal.v ELSE bVal.v - aVal.v
      ELSE IF direction = "asc"
           THEN LocaleCompare(JsString(aVal), JsString(bVal))
           ELSE LocaleCompare(JsString(bVal), JsString(aVal))

RECURSIVE InsertRow(_, _, _, _)
\* insertion of x behind every row that does not compare greater than it
InsertRow(acc, x, columnIndex, direction) ==
  IF acc = <<>> THEN <<x>>
  ELSE IF Comparator(acc[Len(acc)], x, columnIndex, direction) > 0
       THEN Append(InsertRow(SubSeq(acc, 1, Len(acc) - 1), x, columnIndex,
                             direction), acc[Len(acc)])
       ELSE Append(acc, x)

RECURSIVE SortRowsFrom(_, _, _, _)
SortRowsFrom(acc, rest, columnIndex, direction) ==
  IF rest = <<>> THEN acc
  ELSE SortRowsFrom(InsertRow(acc, Head(rest), columnIndex, direction),
                    Tail(rest), columnIndex, direction)

\* [...rows].sort(comparator): a stable sort
SortRows(rows, columnIndex, direction) ==
  SortRowsFrom(<<>>, rows, columnIndex, direction)

\* the comparator orders the rows consistently: of two rows one is not
\* greater than the other, and "not greater" is transitive
ConsistentComparator(rows, columnIndex, direction) ==
  LET n == Len(rows)
      notGreater ==
        {p \in (1..n) \X (1..n) :
           Comparator(rows[p[1]], rows[p[2]], columnIndex, direction) <= 0}
  IN  /\ \A i, j \in 1..n : <<i, j>> \in notGreater \/ <<j, i>> \in notGreater
      /\ \A i, j, k \in 1..n :
           (<<i, j>> \in notGreater /\ <<j, k>> \in notGreater)
             => <<i, k>> \in notGreater

\* the arrangements of the rows
Reorderings(rows) ==
  {[i \in 1..Len(rows) |-> rows[p[i]]] : p \in Permutations(1..Len(rows))}

\* the arrays [...rows].sort(comparator) may return: the stable sort for a
\* consistent comparator; for an inconsistent one the order is left to the
\* engine, and any arrangement of the rows may come back
SortOutcomes(rows, columnIndex, direction) ==
  IF ConsistentComparator(rows, columnIndex, direction)
  THEN {SortRows(rows, columnIndex, direction)}
  ELSE Reorderings(rows)

\* ------------------------------------------------------------ input domains
\* names typed into the rename input
Names == {"q"}

\* texts typed into the editor
Texts == {<<" ">>, <<"a">>}

\* decoded values of the `result` field of the response body
PayloadMissing == Undef
PayloadEmpty == Arr(<<>>)
PayloadFirstNotArray == Arr(<<Num(1)>>)
PayloadSentinel ==
  Arr(<<Arr(<<Str(<<>>)>>), Arr(<<Str(<<"b", "o", "o", "m">>)>>)>>)
PayloadTyped ==
  Arr(<<Arr(<<Obj([name |-> Str(<<"i", "d">>), type |-> Str(<<"i", "n", "t">>)])>>),
        Arr(<<Num(2)>>), Arr(<<Num(1)>>)>>)
PayloadTypedBroken ==
  Arr(<<Arr(<<Obj([name |-> Str(<<"i", "d">>), type |-> Str(<<"i", "n", "t">>)]),
              JNull>>),
        Arr(<<Num(1), Num(2)>>)>>)

Payloads == {PayloadMissing, PayloadEmpty, PayloadFirstNotArray,
             PayloadSentinel, PayloadTyped, PayloadTypedBroken}

\* the sequences over S of length at most n
SeqsUpTo(S, n) == UNION {[1..k -> S] : k \in 0..n}

\* elements of the first row of a response body: "", "a",
\* {name: "id", type: "int"}, {name: "n", type: "foo"}, {name: "x"},
\* {type: "int"}, null
HeaderCells ==
  {Str(<<>>), Str(<<"a">>),
   Obj([name |-> Str(<<"i", "d">>), type |-> Str(<<"i", "n", "t">>)]),
   Obj([name |-> Str(<<"n">>), type |-> Str(<<"f", "o", "o">>)]),
   Obj([name |-> Str(<<"x">>)]),
   Obj([type |-> Str(<<"i", "n", "t">>)]),
   JNull}

\* rows after the first: ["x"], ["y", 2]
DataRows == {Arr(<<Str(<<"x">>)>>), Arr(<<Str(<<"y">>), Num(2)>>)}

\* response bodies that pass the structural check: a first row of at most
\* MaxColumns elements followed by at most MaxRows rows
ResponseBodies ==
  {Arr(<<Arr(header)>> \o rows) :
     header \in SeqsUpTo(HeaderCells, MaxColumns),
     rows \in SeqsUpTo(DataRows, MaxRows)}

\* rows of the sorted results: [3, "2"], [1, 10], [2, 2], [1, "x"]
SortDataRows ==
  {Arr(<<Num(3), Str(<<"2">>)>>), Arr(<<Num(1), Num(10)>>),
   Arr(<<Num(2), Num(2)>>), Arr(<<Num(1), Str(<<"x">>)>>)}

\* response bodies with the plain header ["a", "b"] and at most MaxSortRows
\* rows: column 0 holds numbers, column 1 numbers and strings
SortBodies ==
  {Arr(<<Arr(<<Str(<<"a">>), Str(<<"b">>)>>)>> \o rows) :
     rows \in SeqsUpTo(SortDataRows, MaxSortRows)}

\* how many tabs the add button created at the clock reading Epoch
Twins == {1, 2}

\* characters of the texts in the editor
EditorChars == {"a", "b", " ", ";"}

\* the texts of at most MaxTextLen characters
EditorTexts == SeqsUpTo(EditorChars, MaxTextLen)

\* type tags a typed header can declare: the members of the enumeration as
\* the service spells them, a lower-case spelling, a tag outside the
\* enumeration and the empty tag
TypeTags == ColumnType \cup {<<"i", "n", "t">>, <<"f", "o", "o">>, <<>>}

\* response bodies with a typed header of at most MaxColumns columns and one row
TypedBodies ==
  {Arr(<<Arr([i \in 1..Len(types) |->
                Obj([name |-> Str(<<"c">>), type |-> Str(types[i])])])>>
       \o <<Arr([i \in 1..Len(types) |-> Num(i)])>>) :
     types \in SeqsUpTo(TypeTags, MaxColumns) \ {<<>>}}

\* Math.random() * 20, sampled at its integer extremes
Increments == {0, ProgressSpan - 1}

\* -------------------------------------------------------------------- state
VARIABLES
  tabs,          \* useState<Tab[]>
  activeTab,     \* useState("1")
  isLoading,     \* useState<boolean>(false)
  sortConfig,    \* useState<{key, direction} | null>(null)
  columnWidths,  \* useState<number[]>([])
  progress,      \* useState<number>(0)
  inflight,      \* the runQuery calls suspended at an await, with what
                 \* each has captured: activeTab, startTime, queries,
                 \* columnWidths.length === 0, and its live progressInterval
  now,           \* the clock read by Date.now() and performance.now()
  runs,          \* number of runQuery calls that reached the fetch
  events,        \* number of user events handled so far
  last           \* how the latest submission ("sent", "alert", "ignored") or
                 \* completion ("success", "rejected", "status", "decode",
                 \* "malformed", "typeerror") ended; "" after any other event

vars == <<tabs, activeTab, isLoading, sortConfig, columnWidths, progress,
          inflight, now, runs, events, last>>

NewTab(id) ==
  [id |-> id, name |-> "New Query", content |-> <<>>, queryResult |-> JNull,
   executionTime |-> JNull]

Init ==
  /\ tabs = <<NewTab("1")>>
  /\ activeTab = "1"
  /\ isLoading = FALSE
  /\ sortConfig = JNull
  /\ columnWidths = <<>>
  /\ progress = 0
  /\ inflight = {}
  /\ now = 0
  /\ runs = 0
  /\ events = 0
  /\ last = ""

\* ------------------------------------------------------------------ helpers
TabIds(ts) == {ts[i].id : i \in 1..Len(ts)}

HasTab(ts, id) == \E i \in 1..Len(ts) : ts[i].id = id

\* tabs.find((tab) => tab.id === id), for an id that is present
FindTab(ts, id) == ts[CHOOSE i \in 1..Len(ts) :
                        /\ ts[i].id = id
                        /\ \A j \in 1..(i - 1) : ts[j].id # id]

\* Date.now().toString()
DateNowString == ToString(Epoch + now)

\* value of the textarea: currentTab?.content || ""
EditorValue ==
  IF HasTab(tabs, activeTab) THEN FindTab(tabs, activeTab).content ELSE <<>>

\* -------------------------------------------------------------- tab manager
\* an addTab that puts the new tab in front
addTabInFront ==
  /\ Len(tabs) < MaxTabs
  /\ LET newTab == NewTab(DateNowString)
     IN  /\ tabs' = <<newTab>> \o tabs
         /\ activeTab' = newTab.id
         /\ last' = ""
  /\ UNCHANGED <<isLoading, sortConfig, columnWidths, progress, inflight, now,
                 runs>>

addTab ==
  /\ Len(tabs) < MaxTabs
  /\ LET newTab == NewTab(DateNowString)
     IN  /\ tabs' = Append(tabs, newTab)
         /\ activeTab' = newTab.id
         /\ last' = ""
  /\ UNCHANGED <<isLoading, sortConfig, columnWidths, progress, inflight, now,
                 runs>>

\* removal that collects the remaining tabs in reverse order
removeTabReversed(id) ==
  LET kept == SelectSeq(tabs, LAMBDA tab : tab.id # id)
      newTabs == [i \in 1..Len(kept) |-> kept[Len(kept) + 1 - i]]
  IN  /\ tabs' = newTabs
      /\ activeTab' = IF activeTab = id
                      THEN (IF Len(newTabs) > 0 THEN newTabs[1].id ELSE "")
                      ELSE activeTab
      /\ last' = ""
      /\ UNCHANGED <<isLoading, sortConfig, columnWidths, progress, inflight,
                     now, runs>>

\* removal that leaves the pointer on the removed tab
removeTabKeepsPointer(id) ==
  /\ tabs' = SelectSeq(tabs, LAMBDA tab : tab.id # id)
  /\ last' = ""
  /\ UNCHANGED <<activeTab, isLoading, sortConfig, columnWidths, progress,
                 inflight, now, runs>>

\* removal that moves the pointer to the last remaining tab
removeTabSelectsLast(id) ==
  LET newTabs == SelectSeq(tabs, LAMBDA tab : tab.id # id)
  IN  /\ tabs' = newTabs
      /\ activeTab' = IF activeTab = id
                      THEN (IF Len(newTabs) > 0 THEN newTabs[Len(newTabs)].id
                            ELSE "")
                      ELSE activeTab
      /\ last' = ""
      /\ UNCHANGED <<isLoading, sortConfig, columnWidths, progress, inflight,
                     now, runs>>

\* removal that always moves the pointer to the first remaining tab
removeTabResetsPointer(id) ==
  LET newTabs == SelectSeq(tabs, LAMBDA tab : tab.id # id)
  IN  /\ tabs' = newTabs
      /\ activeTab' = IF Len(newTabs) > 0 THEN newTabs[1].id ELSE ""
      /\ last' = ""
      /\ UNCHANGED <<isLoading, sortConfig, columnWidths, progress, inflight,
                     now, runs>>

removeTab(id) ==
  LET newTabs == SelectSeq(tabs, LAMBDA tab : tab.id # id)
  IN  /\ tabs' = newTabs
      /\ activeTab' = IF activeTab = id
                      THEN (IF Len(newTabs) > 0 THEN newTabs[1].id ELSE "")
                      ELSE activeTab
      /\ last' = ""
      /\ UNCHANGED <<isLoading, sortConfig, columnWidths, progress, inflight,
                     now, runs>>

updateTabContent(id, content) ==
  /\ tabs' = [i \in 1..Len(tabs) |->
                IF tabs[i].id = id THEN [tabs[i] EXCEPT !.content = content]
                ELSE tabs[i]]
  /\ last' = ""
  /\ UNCHANGED <<activeTab, isLoading, sortConfig, columnWidths, progress,
                 inflight, now, runs>>

updateTabName(id, name) ==
  /\ tabs' = [i \in 1..Len(tabs) |->
                IF tabs[i].id = id THEN [tabs[i] EXCEPT !.name = name]
                ELSE tabs[i]]
  /\ last' = ""
  /\ UNCHANGED <<activeTab, isLoading, sortConfig, columnWidths, progress,
                 inflight, now, runs>>

\* a switch that also drops the loading state
setActiveTabStopsLoading(id) ==
  /\ activeTab' = id
  /\ isLoading' = FALSE
  /\ last' = ""
  /\ UNCHANGED <<tabs, sortConfig, columnWidths, progress, inflight, now, runs>>

setActiveTab(id) ==
  /\ activeTab' = id
  /\ last' = ""
  /\ UNCHANGED <<tabs, isLoading, sortConfig, columnWidths, progress,
                 inflight, now, runs>>

\* ----------------------------------------------------- execution controller
\* the pipeline without .filter((query) => query.length > 0)
AllQueriesKeepsEmpty(content) ==
  LET pieces == Split(content, ";")
      trimmed == [i \in 1..Len(pieces) |-> Trim(pieces[i])]
  IN  Join(trimmed, <<";", " ">>)

\* currentTab.content.split(";").map(trim).filter(length > 0).join("; ")
AllQueries(content) ==
  LET pieces == Split(content, ";")
      trimmed == [i \in 1..Len(pieces) |-> Trim(pieces[i])]
  IN  Join(SelectSeq(trimmed, LAMBDA query : Len(query) > 0), <<";", " ">>)

\* the outcome written to the tab that is active at completion
WriteOutcomeToActive(ts, tabId, result, elapsed) ==
  [i \in 1..Len(ts) |->
     IF ts[i].id = activeTab
     THEN [ts[i] EXCEPT !.queryResult = result, !.executionTime = Num(elapsed)]
     ELSE ts[i]]

\* a map that rebuilds the tab without spreading its fields
WriteOutcomeDropsFields(ts, tabId, result, elapsed) ==
  [i \in 1..Len(ts) |->
     IF ts[i].id = tabId
     THEN [NewTab(ts[i].id) EXCEPT !.queryResult = result,
                                   !.executionTime = Num(elapsed)]
     ELSE ts[i]]

\* a map that stores the result without the elapsed time
WriteOutcomeWithoutTime(ts, tabId, result, elapsed) ==
  [i \in 1..Len(ts) |->
     IF ts[i].id = tabId THEN [ts[i] EXCEPT !.queryResult = result] ELSE ts[i]]

\* the prevTabs.map(...) of both completion paths
WriteOutcome(ts, tabId, result, elapsed) ==
  [i \in 1..Len(ts) |->
     IF ts[i].id = tabId
     THEN [ts[i] EXCEPT !.queryResult = result, !.executionTime = Num(elapsed)]
     ELSE ts[i]]

\* runQuery up to its first await
runQuery(queries) ==
  IF ~HasTab(tabs, activeTab)
  THEN /\ last' = "ignored"
       /\ UNCHANGED <<tabs, activeTab, isLoading, sortConfig, columnWidths,
                      progress, inflight, now, runs>>
  ELSE IF Trim(queries) = <<>>
  THEN /\ last' = "alert"
       /\ UNCHANGED <<tabs, activeTab, isLoading, sortConfig, columnWidths,
                      progress, inflight, now, runs>>
  ELSE /\ runs < MaxRuns
       /\ isLoading' = TRUE
       /\ progress' = 0
       /\ runs' = runs + 1
       /\ inflight' = inflight \cup
            {[id |-> runs + 1, tab |-> activeTab, startTime |-> now,
              queries |-> queries, widthsEmpty |-> (Len(columnWidths) = 0),
              phase |-> "fetch"]}
       /\ last' = "sent"
       /\ UNCHANGED <<tabs, activeTab, sortConfig, columnWidths, now>>

\* a handler that shows the loading state before it looks for the tab
handleRunSelectedLoadsFirst(selStart, selEnd) ==
  LET selectedText == Substring(EditorValue, selStart, selEnd)
  IN  IF Trim(selectedText) # <<>>
      THEN runQuery(selectedText)
      ELSE IF HasTab(tabs, activeTab)
      THEN LET allQueries == AllQueries(FindTab(tabs, activeTab).content)
           IN  IF allQueries # <<>>
               THEN runQuery(allQueries)
               ELSE /\ last' = "alert"
                    /\ UNCHANGED <<tabs, activeTab, isLoading, sortConfig,
                                   columnWidths, progress, inflight, now, runs>>
      ELSE /\ last' = "ignored"
           /\ isLoading' = TRUE
           /\ progress' = 0
           /\ UNCHANGED <<tabs, activeTab, sortConfig, columnWidths, inflight,
                          now, runs>>

\* handleRunSelected with the editor selection [selStart, selEnd)
handleRunSelected(selStart, selEnd) ==
  LET selectedText == Substring(EditorValue, selStart, selEnd)
  IN  IF Trim(selectedText) # <<>>
      THEN runQuery(selectedText)
      ELSE IF HasTab(tabs, activeTab)
      THEN LET allQueries == AllQueries(FindTab(tabs, activeTab).content)
           IN  IF allQueries # <<>>
               THEN runQuery(allQueries)
               ELSE /\ last' = "alert"
                    /\ UNCHANGED <<tabs, activeTab, isLoading, sortConfig,
                                   columnWidths, progress, inflight, now, runs>>
      ELSE /\ last' = "ignored"
           /\ UNCHANGED <<tabs, activeTab, isLoading, sortConfig, columnWidths,
                          progress, inflight, now, runs>>

\* the Run button: rendered with disabled={isLoading}
clickRun ==
  /\ ~isLoading
  /\ \E selStart \in 0..Len(EditorValue) :
       \E selEnd \in selStart..Len(EditorValue) :
         handleRunSelected(selStart, selEnd)

\* handleKeyDown with Ctrl+Enter in the textarea
handleKeyDown ==
  \E selStart \in 0..Len(EditorValue) :
    \E selEnd \in selStart..Len(EditorValue) :
      handleRunSelected(selStart, selEnd)

\* one firing of the progressInterval of the execution r
progressTick(r, increment) ==
  /\ r \in inflight
  /\ progress' = IF progress + increment < ProgressCap
                 THEN progress + increment ELSE ProgressCap
  /\ last' = ""
  /\ UNCHANGED <<tabs, activeTab, isLoading, sortConfig, columnWidths,
                 inflight, now, runs>>

\* a finally block without setIsLoading(false)
FinallyKeepsLoading(r) ==
  /\ inflight' = inflight \ {r}
  /\ progress' = ProgressDone
  /\ isLoading' = isLoading

\* a finally block without setProgress(100)
FinallyKeepsProgress(r) ==
  /\ inflight' = inflight \ {r}
  /\ progress' = progress
  /\ isLoading' = FALSE

\* the finally block: clearInterval, setProgress(100), setIsLoading(false)
Finally(r) ==
  /\ inflight' = inflight \ {r}
  /\ progress' = ProgressDone
  /\ isLoading' = FALSE

\* a catch block that subtracts the wrong way round
CatchNegativeTime(r, out, data) ==
  /\ Finally(r)
  /\ last' = out
  /\ tabs' = WriteOutcome(tabs, r.tab, ErrorResult, r.startTime - now)
  /\ sortConfig' = JNull
  /\ UNCHANGED <<activeTab, columnWidths, now, runs>>

\* a catch block without setSortConfig(null)
CatchKeepsSort(r, out, data) ==
  /\ Finally(r)
  /\ last' = out
  /\ tabs' = WriteOutcome(tabs, r.tab, ErrorResult, now - r.startTime)
  /\ sortConfig' = sortConfig
  /\ UNCHANGED <<activeTab, columnWidths, now, runs>>

\* the catch block followed by finally
Catch(r, out, data) ==
  /\ Finally(r)
  /\ last' = out
  /\ tabs' = WriteOutcome(tabs, r.tab, ErrorResult, now - r.startTime)
  /\ sortConfig' = JNull
  /\ UNCHANGED <<activeTab, columnWidths, now, runs>>

\* the rest of the try block after normalization, followed by finally
Success(r, data) ==
  LET updatedQueryResult == Normalize(data)
  IN  /\ Finally(r)
      /\ last' = "success"
      /\ tabs' = WriteOutcome(tabs, r.tab, updatedQueryResult, now - r.startTime)
      /\ columnWidths' =
           IF r.widthsEmpty
           THEN [i \in 1..Len(updatedQueryResult.columns) |-> DefaultWidth]
           ELSE columnWidths
      /\ sortConfig' = JNull
      /\ UNCHANGED <<activeTab, now, runs>>

FetchOutcomes == {"rejected", "status", "ok"}

\* `await fetch(...)` settles: rejected, a non-ok status, or an ok response
fetchSettles(r, outcome) ==
  /\ r \in inflight
  /\ r.phase = "fetch"
  /\ IF outcome = "ok"
     THEN /\ inflight' = (inflight \ {r}) \cup {[r EXCEPT !.phase = "json"]}
          /\ last' = ""
          /\ UNCHANGED <<tabs, activeTab, isLoading, sortConfig, columnWidths,
                         progress, now, runs>>
     ELSE Catch(r, outcome, Undef)

\* `await response.json()` rejects: the body is not JSON
jsonRejects(r) ==
  /\ r \in inflight
  /\ r.phase = "json"
  /\ Catch(r, "decode", Undef)

\* the structural check outside the try block: its throw is not caught
jsonResolvesUncaught(r, data) ==
  /\ r \in inflight
  /\ r.phase = "json"
  /\ IF InvalidFormat(data)
     THEN /\ inflight' = inflight \ {r}
          /\ last' = "uncaught"
          /\ UNCHANGED <<tabs, activeTab, isLoading, sortConfig, columnWidths,
                         progress, now, runs>>
     ELSE IF NormalizeThrows(data) THEN Catch(r, "typeerror", data)
     ELSE Success(r, data)

\* `await response.json()` resolves with data as its result field
jsonResolves(r, data) ==
  /\ r \in inflight
  /\ r.phase = "json"
  /\ IF InvalidFormat(data) THEN Catch(r, "malformed", data)
     ELSE IF NormalizeThrows(data) THEN Catch(r, "typeerror", data)
     ELSE Success(r, data)

\* --------------------------------------------------------- column type icons
\* the rendering affordances of the column headers; "null" is `return null`
NoIcon == "null"

Icons == {"TiSortNumerically", "VscSymbolKey", "RxComponentBoolean", "FaComputer",
          "BsClipboardData", "GoTerminal", "FaRegCirclePlay", "FaRegCircleStop",
          "FaRegCirclePause", "RxResume", "IoIosRemoveCircleOutline",
          "VscDebugRestart", "FaRegCircleXmark", "CiMedicalClipboard"}

\* a classifier whose default branch falls back to the string icon
getTypeIconDefaultsToString(type) ==
  CASE type \in {NUMBER, INT} -> "TiSortNumerically"
    [] type = ColumnType_BOOLEAN -> "RxComponentBoolean"
    [] type = CONTAINER -> "FaComputer"
    [] type = METADATA -> "BsClipboardData"
    [] type = RUN_CMD -> "GoTerminal"
    [] type = START -> "FaRegCirclePlay"
    [] type = STOP -> "FaRegCircleStop"
    [] type = PAUSE -> "FaRegCirclePause"
    [] type = UNPAUSE -> "RxResume"
    [] type = REMOVE -> "IoIosRemoveCircleOutline"
    [] type = RESTART -> "VscDebugRestart"
    [] type = KILL -> "FaRegCircleXmark"
    [] type \in {COUNT, SUM, LENGTH} -> "CiMedicalClipboard"
    [] OTHER -> "VscSymbolKey"

\* the switch over the type tag: NUMBER and INT share a case, COUNT, SUM and
\* LENGTH return the same icon, UNKNOWN has no case and takes the default
getTypeIcon(type) ==
  CASE type = NUMBER -> "TiSortNumerically"
    [] type = INT -> "TiSortNumerically"
    [] type = ColumnType_STRING -> "VscSymbolKey"
    [] type = ColumnType_BOOLEAN -> "RxComponentBoolean"
    [] type = CONTAINER -> "FaComputer"
    [] type = METADATA -> "BsClipboardData"
    [] type = RUN_CMD -> "GoTerminal"
    [] type = START -> "FaRegCirclePlay"
    [] type = STOP -> "FaRegCircleStop"
    [] type = PAUSE -> "FaRegCirclePause"
    [] type = UNPAUSE -> "RxResume"
    [] type = REMOVE -> "IoIosRemoveCircleOutline"
    [] type = RESTART -> "VscDebugRestart"
    [] type = KILL -> "FaRegCircleXmark"
    [] type = COUNT -> "CiMedicalClipboard"
    [] type = SUM -> "CiMedicalClipboard"
    [] type = LENGTH -> "CiMedicalClipboard"
    [] OTHER -> NoIcon

\* the columns of the result table that is on screen: while isLoading the
\* header row is the single "Executing" cell
HeaderColumns ==
  IF ~isLoading /\ HasTab(tabs, activeTab) /\ FindTab(tabs, activeTab).queryResult # JNull
  THEN FindTab(tabs, activeTab).queryResult.columns
  ELSE <<>>

\* {getTypeIcon(column.type)} of every rendered column header
TypeIcons == [i \in 1..Len(HeaderColumns) |-> getTypeIcon(HeaderColumns[i].type)]

\* ------------------------------------------------------------- sort engine
\* indices of the column headers of the active tab's result
RenderedColumns ==
  IF HasTab(tabs, activeTab) /\ FindTab(tabs, activeTab).queryResult # JNull
  THEN 0..(Len(FindTab(tabs, activeTab).queryResult.columns) - 1)
  ELSE {}

\* the sort controls of column columnIndex are rendered
SortRendered(columnIndex) ==
  /\ ~isLoading
  /\ HasTab(tabs, activeTab)
  /\ FindTab(tabs, activeTab).queryResult # JNull
  /\ columnIndex + 1 \in 1..Len(FindTab(tabs, activeTab).queryResult.columns)
  /\ Truthy(FindTab(tabs, activeTab).queryResult.columns[columnIndex + 1].name)

\* a toggle that does not look at the column of the existing SortConfig
SortDirectionAnyColumn(columnIndex) ==
  IF sortConfig # JNull /\ sortConfig.direction = "asc"
  THEN "desc" ELSE "asc"

SortDirection(columnIndex) ==
  IF /\ sortConfig # JNull
     /\ sortConfig.key = columnIndex
     /\ sortConfig.direction = "asc"
  THEN "desc" ELSE "asc"

\* positions of the tabs whose rows handleSort sorts
SortTargets ==
  {i \in 1..Len(tabs) : tabs[i].id = activeTab /\ tabs[i].queryResult # JNull}

\* the row arrays handleSort hands to sort
SortInputs == {tabs[i].queryResult.rows : i \in SortTargets}

handleSort(columnIndex) ==
  /\ SortRendered(columnIndex)
  /\ LET direction == SortDirection(columnIndex)
         outcomes == {<<rows, SortOutcomes(rows, columnIndex, direction)>> :
                        rows \in SortInputs}
     IN  /\ sortConfig' = [key |-> columnIndex, direction |-> direction]
         \* equal arrays are sorted alike
         /\ \E sortedRows \in
                [SortInputs -> UNION {o[2] : o \in outcomes}] :
              /\ \A o \in outcomes : sortedRows[o[1]] \in o[2]
              /\ tabs' = [i \in 1..Len(tabs) |->
                   IF i \in SortTargets
                   THEN [tabs[i] EXCEPT !.queryResult.rows =
                           sortedRows[tabs[i].queryResult.rows]]
                   ELSE tabs[i]]
         /\ last' = ""
  /\ UNCHANGED <<activeTab, isLoading, columnWidths, progress, inflight, now,
                 runs>>

\* ------------------------------------------------------------------- clock
tick ==
  /\ now < MaxTime
  /\ now' = now + 1
  /\ last' = ""
  /\ UNCHANGED <<tabs, activeTab, isLoading, sortConfig, columnWidths,
                 progress, inflight, runs>>

\* ------------------------------------------------------------ specification
\* an event raised by the user, counted against MaxEvents
User(A) == events < MaxEvents /\ A /\ events' = events + 1

\* a timer firing or a promise settling
Env(A) == A /\ UNCHANGED events

Next ==
  \/ User(addTab)
  \/ \E id \in TabIds(tabs) : User(removeTab(id))
  \/ \E id \in TabIds(tabs) : User(setActiveTab(id))
  \/ \E id \in TabIds(tabs) : \E name \in Names : User(updateTabName(id, name))
  \/ \E content \in Texts : User(updateTabContent(activeTab, content))
  \/ User(clickRun)
  \/ User(handleKeyDown)
  \/ \E r \in inflight : \E increment \in Increments :
       Env(progressTick(r, increment))
  \/ \E r \in inflight : \E outcome \in FetchOutcomes :
       Env(fetchSettles(r, outcome))
  \/ \E r \in inflight : Env(jsonRejects(r))
  \/ \E r \in inflight : \E data \in Payloads : Env(jsonResolves(r, data))
  \/ \E columnIndex \in RenderedColumns : User(handleSort(columnIndex))
  \/ Env(tick)

Spec == Init /\ [][Next]_vars

\* the awaits of every suspended runQuery eventually settle
Settle ==
  \/ \E r \in inflight : \E outcome \in FetchOutcomes :
       Env(fetchSettles(r, outcome))
  \/ \E r \in inflight : Env(jsonRejects(r))
  \/ \E r \in inflight : \E data \in Payloads : Env(jsonResolves(r, data))

SpecLive == Init /\ [][Next]_vars /\ WF_vars(Settle)

\* ------------------------------------------- the normalizer on its own inputs
\* the workbench after "a" was typed and run and the fetch resolved ok: the
\* one execution is suspended at `await response.json()`, and the body its
\* response carries is one of ResponseBodies
InitNormalizer ==
  /\ tabs = <<[NewTab("1") EXCEPT !.content = <<"a">>]>>
  /\ activeTab = "1"
  /\ isLoading = TRUE
  /\ sortConfig = JNull
  /\ columnWidths = <<>>
  /\ progress = 0
  /\ \E body \in ResponseBodies :
       inflight = {[id |-> 1, tab |-> "1", startTime |-> 0,
                    queries |-> <<"a">>, widthsEmpty |-> TRUE,
                    phase |-> "json", body |-> body]}
  /\ now = 0
  /\ runs = 1
  /\ events = 2
  /\ last = ""

\* `await response.json()` resolves with the body the response carries
NextNormalizer == \E r \in inflight : Env(jsonResolves(r, r.body))

SpecNormalizer == InitNormalizer /\ [][NextNormalizer]_vars

\* ------------------------------------------- the sort engine on its own inputs
\* the workbench after "a" was typed and run on the first tab and answered
\* with PayloadTyped, the add button was pressed (once, or twice at one
\* clock reading), "a" was typed and run again and the fetch resolved ok:
\* the second execution is suspended at `await response.json()`, and the
\* body its response carries is one of SortBodies. The user events are
\* counted from this state on.
InitSort ==
  /\ \E twins \in Twins :
       tabs = <<[NewTab("1") EXCEPT !.content = <<"a">>,
                                    !.queryResult = Normalize(PayloadTyped),
                                    !.executionTime = Num(0)]>>
              \o [i \in 1..twins |->
                    [NewTab(ToString(Epoch)) EXCEPT !.content = <<"a">>]]
  /\ activeTab = ToString(Epoch)
  /\ isLoading = TRUE
  /\ sortConfig = JNull
  /\ columnWidths = <<DefaultWidth>>
  /\ progress = 0
  /\ \E body \in SortBodies :
       inflight = {[id |-> 2, tab |-> ToString(Epoch), startTime |-> 0,
                    queries |-> <<"a">>, widthsEmpty |-> FALSE,
                    phase |-> "json", body |-> body]}
  /\ now = 0
  /\ runs = 2
  /\ events = 0
  /\ last = ""

\* the response is decoded, and the column headers are clicked
NextSort ==
  \/ \E r \in inflight : Env(jsonResolves(r, r.body))
  \/ \E columnIndex \in RenderedColumns :
       /\ events < MaxSorts
       /\ handleSort(columnIndex)
       /\ events' = events + 1

SpecSort == InitSort /\ [][NextSort]_vars

\* ------------------------------------------- the tab manager on its own inputs
\* the ids a tab can carry: that of the initial tab and the clock readings
TabIdUniverse == {"1"} \cup {ToString(Epoch + t) : t \in 0..MaxTime}

\* the operations of the tab manager; removeTab and updateTabName are
\* called with any id, whether a tab carries it or not
NextTabs ==
  \/ User(addTab)
  \/ \E id \in TabIdUniverse : User(removeTab(id))
  \/ \E id \in TabIds(tabs) : User(setActiveTab(id))
  \/ \E id \in TabIdUniverse : \E name \in Names :
       User(updateTabName(id, name))
  \/ Env(tick)

SpecTabs == Init /\ [][NextTabs]_vars

\* ------------------------------------- the choice of the text to dispatch
\* the workbench after one of EditorTexts was put into the editor of the
\* initial tab. The user events are counted from this state on.
InitDispatch ==
  /\ \E text \in EditorTexts : tabs = <<[NewTab("1") EXCEPT !.content = text]>>
  /\ activeTab = "1"
  /\ isLoading = FALSE
  /\ sortConfig = JNull
  /\ columnWidths = <<>>
  /\ progress = 0
  /\ inflight = {}
  /\ now = 0
  /\ runs = 0
  /\ events = 0
  /\ last = ""

\* the Run button and Ctrl+Enter, with every selection of the text
NextDispatch ==
  \/ User(clickRun)
  \/ User(handleKeyDown)

SpecDispatch == InitDispatch /\ [][NextDispatch]_vars

\* ------------------------------------------ the classifier on typed headers
\* the workbench of InitNormalizer with a response whose header declares
\* column types
InitClassifier ==
  /\ tabs = <<[NewTab("1") EXCEPT !.content = <<"a">>]>>
  /\ activeTab = "1"
  /\ isLoading = TRUE
  /\ sortConfig = JNull
  /\ columnWidths = <<>>
  /\ progress = 0
  /\ \E body \in TypedBodies :
       inflight = {[id |-> 1, tab |-> "1", startTime |-> 0,
                    queries |-> <<"a">>, widthsEmpty |-> TRUE,
                    phase |-> "json", body |-> body]}
  /\ now = 0
  /\ runs = 1
  /\ events = 2
  /\ last = ""

NextClassifier == \E r \in inflight : Env(jsonResolves(r, r.body))

SpecClassifier == InitClassifier /\ [][NextClassifier]_vars

\* --------------------------------- an outstanding request and the tab manager
\* the workbench after the add button was pressed, "a" was typed into the
\* new tab and run: the execution is suspended at `await fetch(...)`. The
\* first tab is untouched, or it was run before, answered with PayloadTyped
\* and sorted by its column. The user events are counted from this state on.
InitRemoval ==
  /\ \E sorted \in BOOLEAN :
       LET result == Normalize(PayloadTyped)
           first == IF sorted
                    THEN [NewTab("1") EXCEPT
                            !.content = <<"a">>,
                            !.queryResult =
                               [result EXCEPT !.rows = SortRows(result.rows, 0, "asc")],
                            !.executionTime = Num(0)]
                    ELSE NewTab("1")
       IN  /\ tabs = <<first, [NewTab(ToString(Epoch)) EXCEPT !.content = <<"a">>]>>
           /\ sortConfig = IF sorted THEN [key |-> 0, direction |-> "asc"] ELSE JNull
           /\ columnWidths = IF sorted THEN <<DefaultWidth>> ELSE <<>>
           /\ runs = IF sorted THEN 2 ELSE 1
           /\ inflight = {[id |-> IF sorted THEN 2 ELSE 1, tab |-> ToString(Epoch),
                           startTime |-> 0, queries |-> <<"a">>,
                           widthsEmpty |-> ~sorted, phase |-> "fetch"]}
  /\ activeTab = ToString(Epoch)
  /\ isLoading = TRUE
  /\ progress = 0
  /\ now = 0
  /\ events = 0
  /\ last = "sent"

\* tabs are closed, opened and selected while the request settles
NextRemoval ==
  \/ \E id \in TabIds(tabs) : User(removeTab(id))
  \/ User(addTab)
  \/ \E id \in TabIds(tabs) : User(setActiveTab(id))
  \/ \E r \in inflight : \E outcome \in FetchOutcomes :
       Env(fetchSettles(r, outcome))
  \/ \E r \in inflight : Env(jsonRejects(r))
  \/ \E r \in inflight : \E data \in Payloads : Env(jsonResolves(r, data))
  \/ Env(tick)

SpecRemoval == InitRemoval /\ [][NextRemoval]_vars

\* =================================================================== claims
Failures == {"rejected", "status", "decode", "malformed", "typeerror"}

\* the execution r completes on its failure path in this step
FailedCompletion(r) ==
  /\ r \notin inflight'
  /\ last' \in Failures
  /\ \/ fetchSettles(r, "rejected")
     \/ fetchSettles(r, "status")
     \/ jsonRejects(r)
     \/ \E data \in Payloads : NormalizeThrows(data) /\ jsonResolves(r, data)

\* the execution r completes on its success path with payload data
SuccessfulCompletion(r, data) ==
  /\ last' = "success"
  /\ ~NormalizeThrows(data)
  /\ jsonResolves(r, data)

\* the execution r leaves the set of suspended executions in this step
Completes(r) == r \in inflight /\ r \notin inflight'

\* the positions of the tabs that differ between the two states of a step
ChangedTabs ==
  {i \in 1..Len(tabs) : i > Len(tabs') \/ tabs'[i] # tabs[i]}
    \cup {i \in 1..Len(tabs') : i > Len(tabs)}

\* the synthetic error result, described by its shape
IsSyntheticError(result) ==
  /\ result # JNull
  /\ Len(result.columns) = 1
  /\ result.columns[1] = [name |-> Str(<<>>), type |-> UNKNOWN]
  /\ Len(result.rows) = 1
  /\ result.rows[1].t = "array"
  /\ Len(result.rows[1].v) = 1
  /\ result.rows[1].v[1].t = "string"
  /\ Len(result.rows[1].v[1].v) > 0

\* C1: at most one request to the query service is outstanding in every
\* reachable state, whichever way executions are submitted.
C1_AtMostOneInFlight == Cardinality(inflight) <= 1

\* C2: whenever isLoading is false no request to the query service is
\* outstanding.
C2_IdleHasNoRequest == ~isLoading => inflight = {}

\* C3: if the awaits of the service call settle, a workbench that is Running
\* eventually is Idle again, whatever the outcome of the request.
C3_RunningLeadsToIdle == isLoading ~> ~isLoading

C3_Witness ==
  /\ last \in Failures
  /\ ~isLoading
  /\ inflight = {}
  /\ runs > 0

\* C4 as stated: on a successful completion the tab that is active at that
\* moment holds the normalized result and the elapsed time, and SortConfig
\* is absent.
C4_ActiveTabAtCompletion ==
  [][\A r \in inflight : Completes(r) => \A data \in Payloads :
       SuccessfulCompletion(r, data) =>
         /\ HasTab(tabs', activeTab')
         /\ FindTab(tabs', activeTab').queryResult = Normalize(data)
         /\ FindTab(tabs', activeTab').executionTime = Num(now - r.startTime)
         /\ sortConfig' = JNull]_vars

\* C4 amended: on a successful completion every tab whose id is the id that
\* was active when the execution was submitted holds the normalized result
\* and the elapsed time since submission, and SortConfig is absent; that tab
\* is the active one when the pointer has not moved since submission.
C4_SubmittingTabHoldsResult ==
  [][\A r \in inflight : Completes(r) => \A data \in Payloads :
       SuccessfulCompletion(r, data) =>
         /\ Len(tabs') = Len(tabs)
         /\ \A i \in 1..Len(tabs) :
              tabs[i].id = r.tab =>
                /\ tabs'[i].id = r.tab
                /\ tabs'[i].queryResult = Normalize(data)
                /\ tabs'[i].executionTime = Num(now - r.startTime)
         /\ sortConfig' = JNull]_vars

C4_Witness ==
  /\ last = "success"
  /\ HasTab(tabs, activeTab)
  /\ FindTab(tabs, activeTab).queryResult = JNull
  /\ \E i \in 1..Len(tabs) :
       /\ tabs[i].id # activeTab
       /\ tabs[i].queryResult = Normalize(PayloadTyped)
       /\ tabs[i].executionTime = Num(1)
  /\ sortConfig = JNull

\* C5: on every failed execution each tab receiving the outcome holds a
\* result of exactly one column {name: "", type: UNKNOWN} and exactly one row
\* of one non-empty message cell, its executionTime is recorded, and
\* SortConfig is cleared.
C5_FailureWritesSyntheticError ==
  [][\A r \in inflight :
       FailedCompletion(r) =>
         /\ \A i \in 1..Len(tabs) :
              tabs[i].id = r.tab =>
                /\ IsSyntheticError(tabs'[i].queryResult)
                /\ tabs'[i].executionTime.t = "number"
         /\ sortConfig' = JNull]_vars

C5_Witness ==
  /\ last = "status"
  /\ HasTab(tabs, activeTab)
  /\ IsSyntheticError(FindTab(tabs, activeTab).queryResult)
  /\ FindTab(tabs, activeTab).executionTime.t = "number"
  /\ sortConfig = JNull

\* a payload that is not a sequence, is empty, or whose first element is not
\* a sequence
C6_Malformed(data) ==
  \/ data.t # "array"
  \/ data.v = <<>>
  \/ data.v[1].t # "array"

\* C6: when the decoded payload is malformed the execution ends in this very
\* step with isLoading false, every tab receiving the outcome holds the
\* synthetic error result, and no other tab changes.
C6_MalformedTakesFailurePath ==
  [][\A r \in inflight : Completes(r) => \A data \in Payloads :
       (C6_Malformed(data) /\ jsonResolves(r, data)) =>
         /\ ~isLoading'
         /\ r \notin inflight'
         /\ Len(tabs') = Len(tabs)
         /\ \A i \in 1..Len(tabs) :
              IF tabs[i].id = r.tab
              THEN IsSyntheticError(tabs'[i].queryResult)
              ELSE tabs'[i] = tabs[i]]_vars

C6_Witness ==
  /\ last = "malformed"
  /\ ~isLoading
  /\ inflight = {}
  /\ \E i \in 1..Len(tabs) : IsSyntheticError(tabs[i].queryResult)

C8_Blank(s) == \A i \in 1..Len(s) : s[i] \in Whitespace

\* the statements of a text: its pieces between `;`, without the pieces
\* that are blank
C8_Statements(s) == SelectSeq(Split(s, ";"), LAMBDA piece : ~C8_Blank(piece))

\* the text a submission is about, up to the trimming of its statements:
\* the selection when it holds a visible character, otherwise the statements
\* of the active tab's content
C8_TextToExecute(selStart, selEnd) ==
  LET selectedText == Substring(EditorValue, selStart, selEnd)
  IN  IF ~C8_Blank(selectedText) THEN selectedText
      ELSE Join(C8_Statements(EditorValue), <<";", " ">>)

C9_CompletionChangesAtMostOneTab ==
  [][\A r \in inflight : Completes(r) =>
       ((FailedCompletion(r) \/ \E data \in Payloads : SuccessfulCompletion(r, data))
          => Cardinality(ChangedTabs) <= 1)]_vars

\* C10: when the tab set is not empty the active pointer is the id of one of
\* its tabs, and the pointer is the empty id only when the tab set is empty.
C10_ActivePointerValid ==
  /\ Len(tabs) > 0 => activeTab \in TabIds(tabs)
  /\ activeTab = "" => Len(tabs) = 0

C10_Witness ==
  /\ Len(tabs) = 0
  /\ activeTab = ""
  /\ events >= 2

\* the positions of the tabs that removeTab(id) keeps
C11_Remaining(id) == {k \in 1..Len(tabs) : tabs[k].id # id}

\* C11: removeTab(id) of the active tab makes the first tab of the remaining
\* sequence active, or sets the pointer to the empty id when no tab remains;
\* removeTab(id) of a tab that is not active leaves the pointer unchanged.
C11_RemoveTabMovesPointer ==
  [][\A id \in TabIds(tabs) :
       removeTab(id) =>
         IF activeTab # id THEN activeTab' = activeTab
         ELSE IF C11_Remaining(id) = {} THEN activeTab' = ""
         ELSE \E k \in C11_Remaining(id) :
                /\ \A j \in C11_Remaining(id) : k <= j
                /\ activeTab' = tabs[k].id]_vars

C11_Witness ==
  /\ Len(tabs) = 2
  /\ tabs[1].id = "1"
  /\ tabs[2].id = ToString(Epoch)
  /\ activeTab = "1"
  /\ now = 1
  /\ events = 3
  /\ \A i \in 1..2 : tabs[i].name = "New Query" /\ tabs[i].content = <<>>

\* C12: tab ids are unique: no two tabs of the set share an id, whatever
\* sequence of addTab and removeTab calls produced the set, several addTab
\* calls at one clock reading included.
C12_TabIdsUnique ==
  \A i \in 1..Len(tabs) : \A j \in 1..Len(tabs) :
    i # j => tabs[i].id # tabs[j].id

C14_SwitchChangesOnlyPointer ==
  [][\A id \in TabIds(tabs) :
       setActiveTab(id) =>
         /\ activeTab' = id
         /\ UNCHANGED <<tabs, isLoading, inflight, runs, progress, sortConfig,
                        columnWidths>>]_vars

C14_Witness ==
  /\ isLoading
  /\ last = ""
  /\ activeTab = "1"
  /\ \E r \in inflight : r.tab # "1" /\ HasTab(tabs, r.tab)
  /\ events = 4

\* C15: while the workbench is Running (isLoading true) the progress value
\* lies within [0, 98] and does not decrease from one state to the next.
C15_ProgressMonotoneWhileRunning ==
  [][/\ isLoading => (0 <= progress /\ progress <= 98)
     /\ (isLoading /\ isLoading') => progress <= progress']_vars

\* the execution r has run to its end in this step: no suspended call
\* carries its number any more
C16_Ended(r) == r \in inflight /\ \A q \in inflight' : q.id # r.id

\* C16: whenever an execution completes, on its success or its failure path,
\* progress is 100 in the state the completion produces, which is the state
\* in which isLoading becomes false.
C16_ProgressDoneAtCompletion ==
  [][/\ \A r \in inflight : C16_Ended(r) => (progress' = 100 /\ ~isLoading')
     /\ (isLoading /\ ~isLoading') => progress' = 100]_vars

C16_Witness ==
  /\ last = "success"
  /\ progress = 100
  /\ ~isLoading
  /\ inflight = {}

\* C17: while the workbench is Idle (isLoading false) the progress value
\* does not change until the next submission: the timer of a completed
\* execution fires no more.
C17_IdleProgressFrozen ==
  [][(~isLoading /\ ~isLoading') => progress' = progress]_vars

\* the first row of a response body that passed the structural check
C18_FirstRow(body) == body.v[1].v

\* the first row is a single-element row holding the empty string
C18_Sentinel(body) == C18_FirstRow(body) = <<Str(<<>>)>>

\* the result the tab of the execution r holds after the step
C18_Result(r) == FindTab(tabs', r.tab).queryResult

\* C18: for a payload of the sentinel shape the result has exactly the one
\* column {name: "", type: UNKNOWN}; when a second raw row exists the result
\* has exactly one row and that row has one element, whatever the length of
\* the raw second row and however many rows follow it; when no second row
\* exists the result has no rows.
C18_SentinelShape ==
  [][\A r \in inflight :
       (C18_Sentinel(r.body) /\ jsonResolves(r, r.body)) =>
         /\ C18_Result(r).columns = <<[name |-> Str(<<>>), type |-> UNKNOWN]>>
         /\ IF Len(r.body.v) >= 2
            THEN /\ Len(C18_Result(r).rows) = 1
                 /\ C18_Result(r).rows[1].t = "array"
                 /\ Len(C18_Result(r).rows[1].v) = 1
            ELSE C18_Result(r).rows = <<>>]_vars

\* the element carries both a name and a type field
C19_NameAndType(x) == x.t = "object" /\ {"name", "type"} \subseteq DOMAIN x.f

\* the first row is non-empty and every element carries name and type
C19_TypedHeader(firstRow) ==
  /\ Len(firstRow) > 0
  /\ \A i \in 1..Len(firstRow) : C19_NameAndType(firstRow[i])

\* C19: a payload that is not of the sentinel shape is normalized as a typed
\* header (one column per element, named by the element's name field)
\* exactly when its first row is non-empty and every element carries both a
\* name and a type field; otherwise it is normalized as a plain header (one
\* column per element, named by the element itself).
C19_ShapeSelection ==
  [][\A r \in inflight :
       (~C18_Sentinel(r.body) /\ jsonResolves(r, r.body)) =>
         LET firstRow == C18_FirstRow(r.body)
             columns == C18_Result(r).columns
         IN  /\ Len(columns) = Len(firstRow)
             /\ \A i \in 1..Len(firstRow) :
                  columns[i].name = IF C19_TypedHeader(firstRow)
                                    THEN firstRow[i].f.name
                                    ELSE firstRow[i]]_vars

\* upper case of the type strings the enumerated bodies carry
C20_UpperCase(type) ==
  IF type = <<"i", "n", "t">> THEN <<"I", "N", "T">>
  ELSE IF type = <<"f", "o", "o">> THEN <<"F", "O", "O">>
  ELSE type

\* C20: for a first row of n elements that all carry a name and a type
\* string the result has n columns in the same order, column i with element
\* i's name and element i's type in upper case, also when that string is
\* outside the ColumnType enumeration; the rows of the result are all raw
\* rows after the first, in their order.
C20_TypedHeaderNormalization ==
  [][\A r \in inflight :
       (C19_TypedHeader(C18_FirstRow(r.body)) /\ jsonResolves(r, r.body)) =>
         LET firstRow == C18_FirstRow(r.body)
             result == C18_Result(r)
         IN  /\ Len(result.columns) = Len(firstRow)
             /\ \A i \in 1..Len(firstRow) :
                  /\ result.columns[i].name = firstRow[i].f.name
                  /\ result.columns[i].type =
                       C20_UpperCase(firstRow[i].f.type.v)
             /\ Len(result.rows) = Len(r.body.v) - 1
             /\ \A k \in 1..Len(result.rows) :
                  result.rows[k] = r.body.v[k + 1]]_vars

C20_Witness ==
  /\ last = "success"
  /\ inflight = {}
  /\ Len(tabs[1].queryResult.columns) = 2
  /\ tabs[1].queryResult.columns[1] =
       [name |-> Str(<<"n">>), type |-> <<"F", "O", "O">>]
  /\ tabs[1].queryResult.columns[2] =
       [name |-> Str(<<"i", "d">>), type |-> INT]
  /\ tabs[1].queryResult.rows =
       <<Arr(<<Str(<<"y">>), Num(2)>>), Arr(<<Str(<<"x">>)>>)>>

\* the first row consists of strings only and is not the sentinel row
C21_PlainHeader(firstRow) ==
  /\ \A i \in 1..Len(firstRow) : firstRow[i].t = "string"
  /\ firstRow # <<Str(<<>>)>>

\* C21: for a first row of n plain strings that is not the sentinel the
\* result has n columns in the same order, column i named by string i with
\* type UNKNOWN, and the rows of the result are the raw rows after the
\* first, unchanged and in their order.
C21_PlainHeaderNormalization ==
  [][\A r \in inflight :
       (C21_PlainHeader(C18_FirstRow(r.body)) /\ jsonResolves(r, r.body)) =>
         LET firstRow == C18_FirstRow(r.body)
             result == C18_Result(r)
         IN  /\ Len(result.columns) = Len(firstRow)
             /\ \A i \in 1..Len(firstRow) :
                  result.columns[i] = [name |-> firstRow[i], type |-> UNKNOWN]
             /\ result.rows = SubSeq(r.body.v, 2, Len(r.body.v))]_vars

C21_Witness ==
  /\ last = "success"
  /\ inflight = {}
  /\ tabs[1].queryResult.columns =
       <<[name |-> Str(<<"a">>), type |-> UNKNOWN],
         [name |-> Str(<<>>), type |-> UNKNOWN]>>
  /\ tabs[1].queryResult.rows =
       <<Arr(<<Str(<<"y">>), Num(2)>>), Arr(<<Str(<<"x">>)>>)>>

\* every row of the result is an array with one element per column
C22_Rectangular(result) ==
  \A k \in 1..Len(result.rows) :
    /\ result.rows[k].t = "array"
    /\ Len(result.rows[k].v) = Len(result.columns)

\* the result has exactly one column and its name is the empty string
C22_SentinelCase(result) ==
  /\ Len(result.columns) = 1
  /\ result.columns[1].name = Str(<<>>)

\* C22: every queryResult stored on a tab, whatever payload the service
\* returned, either has every row as long as its columns or is the
\* sentinel/error case with exactly one column of empty name.
C22_StoredResultShape ==
  \A i \in 1..Len(tabs) :
    tabs[i].queryResult # JNull =>
      \/ C22_Rectangular(tabs[i].queryResult)
      \/ C22_SentinelCase(tabs[i].queryResult)

\* C23: SortConfig is absent in the state right after an execution writes
\* its result, on the success and on the failure path, and it goes from
\* absent to present, or changes its column or direction, only in a step
\* of the sort action.
C23_SortConfigLifecycle ==
  [][/\ \A r \in inflight : C16_Ended(r) => sortConfig' = JNull
     /\ (sortConfig' # JNull /\ sortConfig' # sortConfig) =>
          \E columnIndex \in RenderedColumns : handleSort(columnIndex)]_vars

\* a sort was made and a further execution is outstanding
C23_Witness ==
  /\ sortConfig = [key |-> 0, direction |-> "asc"]
  /\ inflight # {}
  /\ \E i \in 1..Len(tabs) :
       /\ tabs[i].queryResult # JNull
       /\ tabs[i].queryResult.rows = <<Arr(<<Num(1)>>), Arr(<<Num(2)>>)>>

\* C24: sort(columnIndex) sets SortConfig to {columnIndex, descending}
\* exactly when the existing SortConfig targets the same column ascending;
\* with no SortConfig, a different column, or the same column descending it
\* sets {columnIndex, ascending}.
C24_SortToggle ==
  [][\A columnIndex \in RenderedColumns :
       (sortConfig' # sortConfig /\ handleSort(columnIndex)) =>
         sortConfig' =
           IF sortConfig = [key |-> columnIndex, direction |-> "asc"]
           THEN [key |-> columnIndex, direction |-> "desc"]
           ELSE [key |-> columnIndex, direction |-> "asc"]]_vars

\* column 0 was sorted, then column 1
C24_Witness ==
  /\ events = 2
  /\ sortConfig = [key |-> 1, direction |-> "asc"]

\* the rows of the result the active pointer selects
C25_Rows(ts) == FindTab(ts, activeTab).queryResult.rows

\* every row has a number in column columnIndex
C25_AllNumbers(rows, columnIndex) ==
  \A k \in 1..Len(rows) :
    /\ rows[k].t = "array"
    /\ columnIndex + 1 \in 1..Len(rows[k].v)
    /\ rows[k].v[columnIndex + 1].t = "number"

C25_NonDecreasing(rows, columnIndex) ==
  \A k \in 1..(Len(rows) - 1) :
    rows[k].v[columnIndex + 1].v <= rows[k + 1].v[columnIndex + 1].v

C25_NonIncreasing(rows, columnIndex) ==
  \A k \in 1..(Len(rows) - 1) :
    rows[k].v[columnIndex + 1].v >= rows[k + 1].v[columnIndex + 1].v

\* C25: on a column whose cells are all numbers, sort(c) on a freshly
\* written result (SortConfig absent) leaves the rows in non-decreasing
\* order of that column, the next sort(c) (SortConfig {c, ascending}) in
\* non-increasing order, and the one after it (SortConfig {c, descending})
\* in non-decreasing order again.
C25_NumericSortToggle ==
  [][\A columnIndex \in RenderedColumns :
       (/\ sortConfig' # sortConfig
        /\ C25_AllNumbers(C25_Rows(tabs), columnIndex)
        /\ handleSort(columnIndex)) =>
         /\ sortConfig = JNull =>
              C25_NonDecreasing(C25_Rows(tabs'), columnIndex)
         /\ sortConfig = [key |-> columnIndex, direction |-> "asc"] =>
              C25_NonIncreasing(C25_Rows(tabs'), columnIndex)
         /\ sortConfig = [key |-> columnIndex, direction |-> "desc"] =>
              C25_NonDecreasing(C25_Rows(tabs'), columnIndex)]_vars

\* three sorts were made and the rows [3, "2"], [1, 10], [2, 2] stand in
\* ascending order of column 0
C25_Witness ==
  /\ events = 3
  /\ sortConfig = [key |-> 0, direction |-> "asc"]
  /\ C25_Rows(tabs) = <<Arr(<<Num(1), Num(10)>>), Arr(<<Num(2), Num(2)>>),
                        Arr(<<Num(3), Str(<<"2">>)>>)>>

\* the position of the tab the active pointer selects: tabs.find(...)
C26_Active ==
  CHOOSE i \in 1..Len(tabs) :
    tabs[i].id = activeTab /\ \A j \in 1..(i - 1) : tabs[j].id # activeTab

\* how often the row x occurs among rows
C26_Count(rows, x) == Cardinality({k \in 1..Len(rows) : rows[k] = x})

\* after is a permutation of before
C26_Permutation(before, after) ==
  /\ Len(after) = Len(before)
  /\ \A k \in 1..Len(before) :
       C26_Count(after, before[k]) = C26_Count(before, before[k])

\* C26: a sort action changes only the row order of the active tab's
\* result: the rows of the active tab afterwards are a permutation of its
\* rows before, its id, name, content, executionTime and columns are
\* unchanged, and every other tab is unchanged.
C26_SortFrame ==
  [][\A columnIndex \in RenderedColumns :
       (sortConfig' # sortConfig /\ handleSort(columnIndex)) =>
         /\ Len(tabs') = Len(tabs)
         /\ \A i \in 1..Len(tabs) : i # C26_Active => tabs'[i] = tabs[i]
         /\ LET before == tabs[C26_Active]
                after == tabs'[C26_Active]
            IN  /\ after.id = before.id
                /\ after.name = before.name
                /\ after.content = before.content
                /\ after.executionTime = before.executionTime
                /\ after.queryResult.columns = before.queryResult.columns
                /\ C26_Permutation(before.queryResult.rows,
                                   after.queryResult.rows)]_vars

\* column columnIndex of rows holds a number cell and a string cell
C27_Mixed(rows, columnIndex) ==
  /\ \E k \in 1..Len(rows) : Cell(rows[k], columnIndex).t = "number"
  /\ \E k \in 1..Len(rows) : Cell(rows[k], columnIndex).t = "string"

\* row a does not come after row b: numeric comparison when both cells are
\* numbers, comparison of the string representations otherwise
C27_NotAfter(a, b, columnIndex, direction) ==
  LET x == Cell(IF direction = "asc" THEN a ELSE b, columnIndex)
      y == Cell(IF direction = "asc" THEN b ELSE a, columnIndex)
  IN  IF x.t = "number" /\ y.t = "number" THEN x.v <= y.v
      ELSE LocaleCompare(JsString(x), JsString(y)) <= 0

\* C27: on a column holding both number and string cells the comparison
\* (numeric when both cells are numbers, otherwise of the string
\* representations) is a consistent ordering of the rows, and after
\* sort(columnIndex) every pair of adjacent rows is in the chosen direction.
C27_MixedSortConsistent ==
  [][\A columnIndex \in RenderedColumns :
       (/\ sortConfig' # sortConfig
        /\ C27_Mixed(C25_Rows(tabs), columnIndex)
        /\ handleSort(columnIndex)) =>
         LET before == C25_Rows(tabs)
             after == C25_Rows(tabs')
             direction == sortConfig'.direction
         IN  /\ \A i, j, k \in 1..Len(before) :
                  (/\ C27_NotAfter(before[i], before[j], columnIndex, direction)
                   /\ C27_NotAfter(before[j], before[k], columnIndex, direction))
                    => C27_NotAfter(before[i], before[k], columnIndex, direction)
             /\ \A k \in 1..(Len(after) - 1) :
                  C27_NotAfter(after[k], after[k + 1], columnIndex,
                               direction)]_vars

\* C28: addTab() appends exactly one tab at the end of the tab sequence,
\* with name "New Query", empty content, no queryResult and no
\* executionTime, makes it the active tab, and leaves every existing tab
\* unchanged and in its position.
C28_AddTabAppends ==
  [][addTab =>
       /\ Len(tabs') = Len(tabs) + 1
       /\ \A i \in 1..Len(tabs) : tabs'[i] = tabs[i]
       /\ tabs'[Len(tabs')].name = "New Query"
       /\ tabs'[Len(tabs')].content = <<>>
       /\ tabs'[Len(tabs')].queryResult = JNull
       /\ tabs'[Len(tabs')].executionTime = JNull
       /\ activeTab' = tabs'[Len(tabs')].id]_vars

\* a tab was added behind a first tab that holds a text and a result
C28_Witness ==
  /\ Len(tabs) = 2
  /\ tabs[1].content = <<"a">>
  /\ tabs[1].queryResult # JNull
  /\ tabs[2].name = "New Query"
  /\ tabs[2].content = <<>>
  /\ tabs[2].queryResult = JNull
  /\ tabs[2].executionTime = JNull
  /\ activeTab = tabs[2].id
  /\ activeTab # "1"

\* the position of the tab with the given id: tabs.find(...)
C29_Position(id) ==
  CHOOSE i \in 1..Len(tabs) :
    tabs[i].id = id /\ \A j \in 1..(i - 1) : tabs[j].id # id

\* the step leaves the pointer and the execution state as they are, and
\* changes the tab sequence only in the tab with the given id, which
\* becomes edited
C29_OnlyEdits(id, edited) ==
  /\ activeTab' = activeTab
  /\ isLoading' = isLoading
  /\ progress' = progress
  /\ inflight' = inflight
  /\ sortConfig' = sortConfig
  /\ columnWidths' = columnWidths
  /\ IF HasTab(tabs, id)
     THEN tabs' = [tabs EXCEPT ![C29_Position(id)] = edited]
     ELSE tabs' = tabs

\* C29: renameTab(id, name) and updateContent(id, text) change only the
\* name, respectively the content, of the tab with that id and leave its
\* other fields, all other tabs, the active pointer and the execution state
\* unchanged; when no tab has that id the state is unchanged.
C29_EditFrame ==
  [][\A id \in TabIds(tabs) \cup {activeTab} :
       /\ \A name \in Names :
            updateTabName(id, name) =>
              C29_OnlyEdits(id, [tabs[C29_Position(id)] EXCEPT !.name = name])
       /\ \A content \in Texts :
            updateTabContent(id, content) =>
              C29_OnlyEdits(id, [tabs[C29_Position(id)]
                                   EXCEPT !.content = content])]_vars

\* C30: removeTab(id) with an id that no tab carries changes neither the
\* tab sequence nor the active pointer, and after removeTab(id) no tab
\* carries the id, so that a second removeTab(id) changes nothing.
C30_RemoveTabIdempotent ==
  [][\A id \in TabIdUniverse :
       removeTab(id) =>
         /\ ~HasTab(tabs, id) => (tabs' = tabs /\ activeTab' = activeTab)
         /\ ~HasTab(tabs', id)]_vars

\* the initial tab was removed, a tab was added at clock reading 0, and the
\* third event left the state as it was, as removeTab("1") does when called
\* again
C30_Witness ==
  /\ events = 3
  /\ now = 0
  /\ tabs = <<NewTab(ToString(Epoch))>>
  /\ activeTab = ToString(Epoch)

\* the texts of the requests sent in this step
C31_Dispatched == {r.queries : r \in inflight' \ inflight}

\* C31: when the editor has a non-empty selection the text dispatched to
\* the service is exactly the selected substring, neither trimmed nor split
\* into statements; the full content is dispatched only without such a
\* selection.
C31_SelectionDispatchedVerbatim ==
  [][inflight' # inflight =>
       \A selStart \in 0..Len(EditorValue) :
         \A selEnd \in (selStart + 1)..Len(EditorValue) :
           handleRunSelected(selStart, selEnd) =>
             C31_Dispatched = {SubSeq(EditorValue, selStart + 1, selEnd)}]_vars

\* the piece without its leading and trailing white space
C32_Strip(piece) ==
  LET inked == {i \in 1..Len(piece) : piece[i] \notin Whitespace}
  IN  IF inked = {} THEN <<>>
      ELSE SubSeq(piece, CHOOSE i \in inked : \A j \in inked : i <= j,
                         CHOOSE i \in inked : \A j \in inked : i >= j)

RECURSIVE C32_Statements(_, _)
\* the statements of rest, read character by character: a statement ends at
\* a ";" or at the end of the text, and counts when it is more than white
\* space; piece is the part of the current statement read so far
C32_Statements(rest, piece) ==
  LET ended == IF C32_Strip(piece) = <<>> THEN <<>> ELSE <<C32_Strip(piece)>>
  IN  IF rest = <<>> THEN ended
      ELSE IF Head(rest) = ";" THEN ended \o C32_Statements(Tail(rest), <<>>)
      ELSE C32_Statements(Tail(rest), Append(piece, Head(rest)))

RECURSIVE C32_Joined(_)
\* the statements in their order with "; " between neighbours
C32_Joined(statements) ==
  IF Len(statements) = 1 THEN statements[1]
  ELSE statements[1] \o <<";", " ">> \o C32_Joined(Tail(statements))

\* C32: without a selection one single request is sent, and its text is the
\* content of the active tab split on ";", each piece trimmed, the empty
\* pieces discarded and the others joined with "; " in their order; when no
\* piece remains, no request is sent.
C32_FullContentDispatch ==
  [][(\E caret \in 0..Len(EditorValue) : handleRunSelected(caret, caret)) =>
         LET statements == C32_Statements(EditorValue, <<>>)
         IN  IF statements = <<>> THEN inflight' = inflight
             ELSE /\ Cardinality(inflight' \ inflight) = 1
                  /\ C31_Dispatched = {C32_Joined(statements)}]_vars

\* "a;b" was sent as "a; b"
C32_Witness ==
  /\ last = "sent"
  /\ \E r \in inflight : r.queries = <<"a", ";", " ", "b">>

\* C33: the classifier is total: the icon of every rendered column header is
\* one of the display categories or none; a column whose type tag has no case
\* of its own (UNKNOWN, an upper-cased tag outside the enumeration, the empty
\* tag) gets none; a NUMBER column and an INT column get the same category.
C33_ClassifiedTypes == ColumnType \ {UNKNOWN}

C33_ClassifierTotal ==
  /\ Len(TypeIcons) = Len(HeaderColumns)
  /\ \A i \in 1..Len(HeaderColumns) :
       /\ TypeIcons[i] \in Icons \cup {NoIcon}
       /\ HeaderColumns[i].type \notin C33_ClassifiedTypes => TypeIcons[i] = NoIcon
       /\ \A j \in 1..Len(HeaderColumns) :
            (HeaderColumns[i].type = NUMBER /\ HeaderColumns[j].type = INT)
              => (TypeIcons[i] = TypeIcons[j] /\ TypeIcons[i] \in Icons)

C33_Witness ==
  /\ last = "success"
  /\ \E i, j \in 1..Len(HeaderColumns) :
       /\ HeaderColumns[i].type = NUMBER
       /\ HeaderColumns[j].type = INT
       /\ TypeIcons[i] = TypeIcons[j]

\* C34: when an execution completes, on either path, the tab whose id was the
\* active pointer at submission, if the tab set still has one, receives the
\* outcome (a result and the elapsed time) and keeps its other fields, and every
\* other tab is left as it was, wherever the pointer is by then.
C34_OutcomeToSubmittingTabOnly ==
  [][\A r \in inflight : C16_Ended(r) =>
       /\ Len(tabs') = Len(tabs)
       /\ \A i \in 1..Len(tabs) :
            IF HasTab(tabs, r.tab) /\ i = C29_Position(r.tab)
            THEN /\ tabs'[i].queryResult # JNull
                 /\ tabs'[i] = [tabs[i] EXCEPT
                                  !.queryResult = tabs'[i].queryResult,
                                  !.executionTime = Num(now - r.startTime)]
            ELSE tabs'[i] = tabs[i]]_vars

\* under SpecRemoval no step edits a tab: the tab an execution was submitted
\* from is the tab with the captured id that holds the submitted text, and it
\* is removed when the tab set has no such tab
C35_SubmittingTabRemoved(r) ==
  \A i \in 1..Len(tabs) : tabs[i].id = r.tab => tabs[i].content # r.queries

\* C35: when an execution completes after the tab it was submitted from was
\* removed, every remaining tab keeps its queryResult and executionTime, and
\* SortConfig is cleared, progress is 100 and isLoading is false.
C35_OutcomeDiscardedAfterRemoval ==
  [][\A r \in inflight : (C16_Ended(r) /\ C35_SubmittingTabRemoved(r)) =>
       /\ Len(tabs') = Len(tabs)
       /\ \A i \in 1..Len(tabs) :
            /\ tabs'[i].queryResult = tabs[i].queryResult
            /\ tabs'[i].executionTime = tabs[i].executionTime
       /\ sortConfig' = JNull
       /\ progress' = ProgressDone
       /\ ~isLoading']_vars

\* the rows are in the order of the comparator of the column and direction
C36_Ordered(rows, columnIndex, direction) ==
  \A i \in 1..(Len(rows) - 1) :
    Comparator(rows[i], rows[i + 1], columnIndex, direction) <= 0

\* C36: whenever SortConfig is present the active tab has a result, the
\* column of SortConfig is one of that result's columns, and that result's
\* rows are ordered by that column in SortConfig's direction.
C36_SortConfigDescribesActiveResult ==
  sortConfig # JNull =>
    /\ HasTab(tabs, activeTab)
    /\ FindTab(tabs, activeTab).queryResult # JNull
    /\ sortConfig.key + 1 \in 1..Len(FindTab(tabs, activeTab).queryResult.columns)
    /\ C36_Ordered(FindTab(tabs, activeTab).queryResult.rows,
                   sortConfig.key, sortConfig.direction)

\* every tab has both a queryResult and an executionTime, or neither
C37_Paired ==
  \A i \in 1..Len(tabs) :
    (tabs[i].queryResult # JNull) <=> (tabs[i].executionTime # JNull)

\* a step that keeps the ids of the tabs in place clears no queryResult and
\* no executionTime, and a step that shortens or extends the tab sequence
\* leaves the fields of the tabs it keeps as they are
C37_NoneCleared ==
  IF [i \in 1..Len(tabs') |-> tabs'[i].id] = [i \in 1..Len(tabs) |-> tabs[i].id]
  THEN \A i \in 1..Len(tabs) :
         /\ tabs[i].queryResult # JNull => tabs'[i].queryResult # JNull
         /\ tabs[i].executionTime # JNull => tabs'[i].executionTime # JNull
  ELSE \A j \in 1..Len(tabs') :
         \/ \E i \in 1..Len(tabs) : tabs'[j] = tabs[i]
         \/ tabs'[j] = NewTab(tabs'[j].id)

\* a completion leaves both fields present in every tab it targets
C37_WrittenTogether ==
  \A r \in inflight : C16_Ended(r) =>
    \A i \in 1..Len(tabs) :
      tabs[i].id = r.tab =>
        (tabs'[i].queryResult # JNull /\ tabs'[i].executionTime # JNull)

\* C37: in every reachable state every tab has a queryResult exactly when it
\* has an executionTime: a new tab has neither, a completion writes both, and
\* no step clears one of them.
C37_ResultAndTimeTogether ==
  []C37_Paired /\ [][C37_NoneCleared /\ C37_WrittenTogether]_vars

C37_Witness ==
  /\ sortConfig # JNull
  /\ \E i, j \in 1..Len(tabs) :
       /\ tabs[i].queryResult # JNull
       /\ tabs[i].executionTime # JNull
       /\ tabs[j].queryResult = JNull
       /\ tabs[j].executionTime = JNull

\* the clock reading at which the tab with the id was created; the initial
\* tab exists before every reading
C38_Created(id) ==
  IF id = "1" THEN -1 ELSE CHOOSE t \in 0..MaxTime : ToString(Epoch + t) = id

\* the tabs of the next state are tabs of this state, in the same order
C38_Subsequence ==
  \E f \in [1..Len(tabs') -> 1..Len(tabs)] :
    /\ \A j \in 1..Len(tabs') : tabs'[j].id = tabs[f[j]].id
    /\ \A j, k \in 1..Len(tabs') : j < k => f[j] < f[k]

\* C38: no step changes the relative order of the tabs: a step that keeps
\* the number of tabs keeps every tab at its position, a step that removes
\* tabs keeps the remaining ones in their order, a step that adds a tab
\* appends it; and when the active tab is removed the pointer moves to the
\* first remaining tab, which no remaining tab is older than.
C38_TabOrderKept ==
  [][/\ Len(tabs') = Len(tabs) =>
          \A i \in 1..Len(tabs) : tabs'[i].id = tabs[i].id
     /\ Len(tabs') > Len(tabs) =>
          /\ Len(tabs') = Len(tabs) + 1
          /\ SubSeq(tabs', 1, Len(tabs)) = tabs
     /\ Len(tabs') < Len(tabs) =>
          /\ C38_Subsequence
          /\ (activeTab \notin TabIds(tabs') /\ Len(tabs') > 0) =>
               /\ activeTab' = tabs'[1].id
               /\ \A j \in 1..Len(tabs') :
                    C38_Created(tabs'[1].id) <= C38_Created(tabs'[j].id)]_vars

C38_Witness ==
  /\ "1" \notin TabIds(tabs)
  /\ Len(tabs) = 2
  /\ tabs[1].id # tabs[2].id
  /\ activeTab = tabs[1].id
  /\ events = MaxEvents

\* C39: with an empty tab set a submission by the Run button or by Ctrl+Enter
\* adds no request and leaves isLoading, progress, SortConfig and the tab set
\* as they are; and while the tab set stays empty an idle workbench stays idle.
C39_EmptyTabSetSubmission ==
  [][/\ (Len(tabs) = 0 /\ (clickRun \/ handleKeyDown)) =>
          /\ activeTab = ""
          /\ inflight' = inflight
          /\ isLoading' = isLoading
          /\ progress' = progress
          /\ sortConfig' = sortConfig
          /\ tabs' = tabs
     /\ (Len(tabs) = 0 /\ ~isLoading /\ Len(tabs') = 0) => ~isLoading']_vars

C39_Witness ==
  /\ last = "ignored"
  /\ Len(tabs) = 0
  /\ activeTab = ""
  /\ ~isLoading
  /\ inflight = {}

====
